---- MODULE Spec2Model ----
(***************************************************************************)
(* Verification model of the RenderArt WASM upscaler                       *)
(* (pixagram-blockchain/pixagram-upscaler, src/wasm).                      *)
(*                                                                         *)
(*   - the xBRZ driver (xbrz/mod.rs): scale_rgba, scale_rgba_config,       *)
(*     scale_with_config, xbrz_upscale;                                    *)
(*   - the host-facing wrappers and the shared output buffer (lib.rs);     *)
(*   - the lazily built YCbCr distance table (xbrz/ycbcr_lookup.rs).       *)
(*                                                                         *)
(* Four specifications share the module:                                   *)
(*   SpecUpscale  one call of one xBRZ entry point on an enumerated input; *)
(*   Spec         sequences of host calls handing over SHARED_BUFFER;      *)
(*   SpecLookup   threads racing through YCbCrLookup::instance();          *)
(*   SpecDist     one call of YCbCrLookup::dist or dist_rgb on the table.  *)
(***************************************************************************)
EXTENDS Integers, Sequences, FiniteSets, TLC

VARIABLES
    build,            \* "debug" | "release": whether integer overflow panics or wraps
    call,             \* SpecUpscale: the call under examination (its arguments)
    out,              \* SpecUpscale: what the call produced
    mem,              \* Spec: SHARED_BUFFER and the Vec<u8> objects alive
    result,           \* Spec: what the most recent host call returned
    calls,            \* Spec: number of host calls made
    LOOKUP_INSTANCE,  \* SpecLookup: static mut LOOKUP_INSTANCE
    LOOKUP_LOCK,      \* SpecLookup: static LOOKUP_LOCK (parking_lot::Once)
    tpc,              \* SpecLookup: each thread's position
    lookup,           \* SpecLookup: each thread's local Vec in new_small (its length)
    seen,             \* SpecLookup: what each thread last read through its reference
    builds,           \* SpecLookup: how many times the build closure was entered
    pix1,             \* SpecDist: the first pixel handed to dist / dist_rgb
    pix2,             \* SpecDist: the second pixel
    measured          \* SpecDist: what the distance call returned

vars == <<build, call, out, mem, result, calls,
          LOOKUP_INSTANCE, LOOKUP_LOCK, tpc, lookup, seen, builds,
          pix1, pix2, measured>>

upscaleVars == <<call, out>>
hostVars    == <<mem, result, calls>>
lookupVars  == <<LOOKUP_INSTANCE, LOOKUP_LOCK, tpc, lookup, seen, builds>>
distVars    == <<pix1, pix2, measured>>

(***************************************************************************)
(* Bounds of the model.                                                    *)
(***************************************************************************)
MaxPixels == 2     \* a source holds 0..MaxPixels whole pixels
MaxExtra  == 1     \* plus 0..MaxExtra stray bytes (length not a multiple of 4)
MaxDim    == 2     \* src_width, src_height range over 0..MaxDim (and BigDim)
MaxScale  == 7     \* scale / factor range over 0..MaxScale
MaxCalls  == 2     \* host calls in one run of Spec
MaxHostScale == 3  \* the host's scale ranges over 0..MaxHostScale (and u32::MAX for xBRZ)
NumThreads == 2    \* threads using the distance table
BuildSteps == 2    \* new_small's loop is followed in BuildSteps strides

(***************************************************************************)
(* Machine integers.  The crate is built for wasm32 (lib.rs casts pointers *)
(* to u32): usize and u32 are 32 bits wide.  A machine word is written as  *)
(* <<hi, lo>>, standing for hi * 2^16 + lo with lo < 2^16, because the     *)
(* checker's own integers stop below 2^31.  A word is in range when        *)
(* hi < 2^16; a product is first formed exactly and then either wraps      *)
(* (release build) or panics (debug build, overflow checks on).            *)
(***************************************************************************)
Half == 256 * 256

U(n) == <<n \div Half, n % Half>>           \* the word holding the small number n

Hi(a) == a[1]
Lo(a) == a[2]

ToNat(a) == Hi(a) * Half + Lo(a)            \* only used on words known to be small

Overflows(a) == Hi(a) >= Half                \* the exact value does not fit 32 bits

Wrap(a) == <<Hi(a) % Half, Lo(a)>>           \* the value modulo 2^32

Less(a, b) == Hi(a) < Hi(b) \/ (Hi(a) = Hi(b) /\ Lo(a) < Lo(b))

\* product of two words: exact when one of them is below 2^16; when both
\* are 2^16 or more the product is 2^32 or more, and what is kept is its low
\* 32 bits with the overflow marked in the upper half.  (The model never
\* multiplies two words that both have a large low half, so the partial
\* products stay within the checker's range.)
Mul(a, b) ==
    LET low  == Lo(a) * Lo(b)
        lowq == low \div Half
        lowr == low % Half
        mid  == Hi(a) * Lo(b) + Lo(a) * Hi(b) + lowq
    IN  IF Hi(a) = 0 \/ Hi(b) = 0 THEN <<mid, lowr>>
        ELSE <<Half + (mid % Half), lowr>>

BigDim == <<128 * 256, 0>>                   \* 2^31, a width the u32 parameter can carry

u32_MAX == <<Half - 1, Half - 1>>

\* Ord::clamp on words
clamp(x, lo, hi) == IF Less(x, lo) THEN lo ELSE IF Less(hi, x) THEN hi ELSE x

(***************************************************************************)
(* Outcome of a call: a returned buffer, or a panic (no value returned).   *)
(***************************************************************************)
Ok(bytes)  == [panic |-> FALSE, why |-> "none", buf |-> bytes]
Panic(why) == [panic |-> TRUE,  why |-> why,    buf |-> <<>>]

(***************************************************************************)
(* Pixels.  Rgba8 is four bytes R,G,B,A; a source is a flat byte sequence. *)
(***************************************************************************)
PixelSize == 4

\* source.align_to::<P>(): the whole pixels of the byte sequence (the
\* alignment of a byte-sized channel struct is 1, so the prefix is empty and
\* the suffix holds the len % 4 stray bytes).
align_to(source) ==
    [k \in 1..(Len(source) \div PixelSize) |->
        <<source[PixelSize * k - 3], source[PixelSize * k - 2],
          source[PixelSize * k - 1], source[PixelSize * k]>>]

\* Vec::from_raw_parts(ptr as *mut u8, len * P::SIZE, ..): the pixels as bytes
from_raw_parts(argb) ==
    [i \in 1..(Len(argb) * PixelSize) |->
        argb[((i - 1) \div PixelSize) + 1][((i - 1) % PixelSize) + 1]]

\* ScalerConfig; thresholds in tenths (30.0, 4.0, 3.6, 2.2)
DefaultConfig ==
    [equal_color_tolerance |-> 300, center_direction_bias |-> 40,
     dominant_direction_threshold |-> 36, steep_direction_threshold |-> 22]

\* a configuration under which every two colours count as equal
LooseConfig == [DefaultConfig EXCEPT !.equal_color_tolerance = 255 * 10 * (255 + 3)]

Configs == {DefaultConfig, LooseConfig}

(***************************************************************************)
(* The per-factor scalers (scaler.rs, kernel.rs, blend.rs, oob_reader.rs,  *)
(* pixel.rs) are not part of the sources at hand; scale_image follows the  *)
(* design's sections 4.1, 4.3, 4.4 and 4.5: a factor x factor block per    *)
(* source pixel, the sub-pixel at a corner of the block blended with the   *)
(* diagonal neighbour when an edge touches that corner, every other        *)
(* sub-pixel the source pixel itself.                                      *)
(***************************************************************************)
PixelDefault == <<0, 0, 0, 0>>

\* OobReaderTransparent: a fully transparent pixel outside the image
oob_read(src, w, h, x, y) ==
    IF x >= 0 /\ x < w /\ y >= 0 /\ y < h THEN src[y * w + x + 1] ELSE PixelDefault

Abs(n) == IF n < 0 THEN -n ELSE n

\* colour difference between two pixels, in tenths, with the alpha handling
\* of section 4.2: (rgb_distance * min(alpha1, alpha2)) / 255 + |alpha1 - alpha2| * 255
color_diff(p, q) ==
    LET rgb_distance == 10 * (Abs(p[1] - q[1]) + Abs(p[2] - q[2]) + Abs(p[3] - q[3]))
        min_alpha    == IF p[4] < q[4] THEN p[4] ELSE q[4]
    IN  (rgb_distance * min_alpha) \div 255 + 10 * Abs(p[4] - q[4]) * 255

eq_color(p, q, config) == color_diff(p, q) <= config.equal_color_tolerance

\* rounded linear interpolation of two pixels, weight 1/2 (section 4.1)
blend_half(p, q) == [c \in 1..PixelSize |-> (p[c] + q[c] + 1) \div 2]

\* the colour of output sub-pixel (i, j) of the block of source pixel (x, y)
sub_pixel(src, w, h, factor, config, x, y, i, j) ==
    LET centre == oob_read(src, w, h, x, y)
        atX    == i = 0 \/ i = factor - 1
        atY    == j = 0 \/ j = factor - 1
        dx     == IF i = 0 THEN -1 ELSE 1
        dy     == IF j = 0 THEN -1 ELSE 1
        side   == oob_read(src, w, h, x + dx, y)
        above  == oob_read(src, w, h, x, y + dy)
        diag   == oob_read(src, w, h, x + dx, y + dy)
        edge   == /\ eq_color(side, above, config)
                  /\ ~eq_color(centre, side, config)
    IN  IF atX /\ atY /\ edge THEN blend_half(centre, diag) ELSE centre

\* ScalerNx::scale_image over the rows 0..src_height: the destination pixels
scale_image(src, w, h, factor, config) ==
    [k \in 1..(w * h * factor * factor) |->
        LET ox == (k - 1) % (w * factor)
            oy == (k - 1) \div (w * factor)
        IN  sub_pixel(src, w, h, factor, config,
                      ox \div factor, oy \div factor, ox % factor, oy % factor)]

(***************************************************************************)
(* xbrz/mod.rs                                                             *)
(***************************************************************************)
\* a Vec of n elements of `size` bytes cannot be allocated beyond isize::MAX bytes
alloc_fails(n, size) == Hi(Mul(n, U(size))) >= 128 * 256

\* scale_with_config with the length assertions ahead of the empty-image return
scale_with_config_assert_first(source, src_width, src_height, factor, config, bld) ==
    LET wh  == Mul(src_width, src_height)
        whs == Mul(Wrap(wh), U(PixelSize))
    IN  IF bld = "debug" /\ (Overflows(wh) \/ Overflows(whs)) THEN Panic("overflow")
        ELSE IF U(Len(source)) # Wrap(whs) THEN Panic("assert_len")
        ELSE IF ~ Less(U(0), factor) \/ Less(U(6), factor) THEN Panic("assert_factor")
        ELSE IF src_width = U(0) \/ src_height = U(0) THEN Ok(<<>>)
        ELSE IF factor = U(1) THEN Ok(from_raw_parts(align_to(source)))
        ELSE Ok(from_raw_parts(
                 scale_image(align_to(source), ToNat(src_width), ToNat(src_height),
                             ToNat(factor), config)))

scale_with_config(source, src_width, src_height, factor, config, bld) ==
    IF src_width = U(0) \/ src_height = U(0) THEN Ok(<<>>)
    ELSE
      LET wh       == Mul(src_width, src_height)
          whs      == Mul(Wrap(wh), U(PixelSize))
          src_argb == align_to(source)
          ff1      == Mul(Wrap(wh), factor)
          ff2      == Mul(Wrap(ff1), factor)
          dst_len  == Wrap(ff2)
      IN  IF bld = "debug" /\ (Overflows(wh) \/ Overflows(whs)) THEN Panic("overflow")
          ELSE IF U(Len(source)) # Wrap(whs) THEN Panic("assert_len")
          ELSE IF U(Len(src_argb)) # Wrap(wh) THEN Panic("assert_len")
          ELSE IF ~ Less(U(0), factor) THEN Panic("assert_factor")
          ELSE IF Less(U(6), factor) THEN Panic("assert_factor")
          ELSE IF factor = U(1) THEN Ok(from_raw_parts(src_argb))
          ELSE IF bld = "debug" /\ (Overflows(ff1) \/ Overflows(ff2)) THEN Panic("overflow")
          ELSE IF alloc_fails(dst_len, PixelSize) THEN Panic("alloc")
          \* w * h wrapped (release only): the scaler's first read is past the slice
          ELSE IF Overflows(wh) THEN Panic("index")
          ELSE Ok(from_raw_parts(
                   scale_image(src_argb, ToNat(src_width), ToNat(src_height),
                               ToNat(factor), config)))

scale_rgba_config(source, src_width, src_height, factor, config, bld) ==
    scale_with_config(source, src_width, src_height, factor, config, bld)

scale(source, src_width, src_height, factor, bld) ==
    scale_with_config(source, src_width, src_height, factor, DefaultConfig, bld)

scale_rgba(source, src_width, src_height, factor, bld) ==
    scale(source, src_width, src_height, factor, bld)

\* xbrz_upscale without its early return for scale 1
xbrz_upscale_no_copy(input, src_w, src_h, scale_, config, bld) ==
    scale_rgba_config(input, src_w, src_h, clamp(scale_, U(1), U(6)), config, bld)

xbrz_upscale(input, src_w, src_h, scale_, config, bld) ==
    LET clamped == clamp(scale_, U(1), U(6))
    IN  IF clamped = U(1) THEN Ok(input)
        ELSE scale_rgba_config(input, src_w, src_h, clamped, config, bld)

(***************************************************************************)
(* lib.rs: the shared output buffer and the host-facing wrappers.          *)
(*                                                                         *)
(* mem.vec is SHARED_BUFFER, a Vec<u8> object named by the identity of its *)
(* allocation; mem.live are the Vec objects that exist, mem.dropped those  *)
(* that have been dropped, mem.next the identity of the next Vec.          *)
(***************************************************************************)
InitMem == [vec |-> [id |-> 0, bytes |-> <<>>], live |-> {0}, dropped |-> {}, next |-> 1]

NoRecord == [ptr |-> 0, len |-> U(0), width |-> U(0), height |-> U(0)]

\* Vec::as_ptr: the place of the allocation (named by the allocation's
\* identity), or the dangling non-allocation of an empty Vec
as_ptr(vec) == IF vec.bytes = <<>> THEN 0 ELSE vec.id

\* a panic before update_buffer: the output (if any) is dropped, nothing returned
unwind(m, why) ==
    [mem |-> m, rec |-> NoRecord, panic |-> TRUE, why |-> why, output |-> <<>>]

\* update_buffer keeping the previous Vec alive instead of dropping it
update_buffer_leak(m, output, width, height) ==
    LET new == [id |-> m.next, bytes |-> output]
    IN  [mem    |-> [vec     |-> new,
                     live    |-> m.live \cup {new.id},
                     dropped |-> m.dropped,
                     next    |-> m.next + 1],
         rec    |-> [ptr |-> as_ptr(new), len |-> U(Len(new.bytes)),
                     width |-> width, height |-> height],
         panic  |-> FALSE,
         why    |-> "none",
         output |-> output]

\* `output` is the Vec the renderer returned (the next Vec object); the
\* assignment drops the Vec SHARED_BUFFER held and takes the new one.
update_buffer(m, output, width, height) ==
    LET new == [id |-> m.next, bytes |-> output]
    IN  [mem    |-> [vec     |-> new,
                     live    |-> (m.live \cup {new.id}) \ {m.vec.id},
                     dropped |-> m.dropped \cup {m.vec.id},
                     next    |-> m.next + 1],
         rec    |-> [ptr |-> as_ptr(new), len |-> U(Len(new.bytes)),
                     width |-> width, height |-> height],
         panic  |-> FALSE,
         why    |-> "none",
         output |-> output]

\* what a wrapper has in hand when it reaches update_buffer: the renderer's
\* output and the dimensions it reports, or the panic that ended the call
Rendered(bytes, width, height) ==
    [panic |-> FALSE, why |-> "none", buf |-> bytes, width |-> width, height |-> height]

Failed(why) ==
    [panic |-> TRUE, why |-> why, buf |-> <<>>, width |-> U(0), height |-> U(0)]

\* a wrapper's last step with SHARED_BUFFER emptied before the renderer ran
hand_over_clear_first(m, r) ==
    IF r.panic
    THEN unwind([m EXCEPT !.vec = [id |-> m.next, bytes |-> <<>>],
                          !.live = (m.live \cup {m.next}) \ {m.vec.id},
                          !.dropped = m.dropped \cup {m.vec.id},
                          !.next = m.next + 1], r.why)
    ELSE update_buffer(m, r.buf, r.width, r.height)

\* the wrappers' last step: a panic inside the renderer (or in the
\* arithmetic after it) leaves the function before update_buffer is reached
hand_over(m, r) ==
    IF r.panic THEN unwind(m, r.why)
    ELSE update_buffer(m, r.buf, r.width, r.height)

\* xbrz_upscale_config clamping the scale from above only (scale.min(6))
xbrz_render_min_only(data, width, height, scale_, config, bld) ==
    LET clamped_scale == IF Less(U(6), scale_) THEN U(6) ELSE scale_
        output        == xbrz_upscale(data, width, height, clamped_scale, config, bld)
        out_width     == Mul(width, clamped_scale)
        out_height    == Mul(height, clamped_scale)
    IN  IF output.panic THEN Failed(output.why)
        ELSE IF bld = "debug" /\ (Overflows(out_width) \/ Overflows(out_height))
             THEN Failed("overflow")
        ELSE Rendered(output.buf, Wrap(out_width), Wrap(out_height))

\* xbrz_upscale_config up to its call of update_buffer
xbrz_render(data, width, height, scale_, config, bld) ==
    LET clamped_scale == clamp(scale_, U(1), U(6))
        output        == xbrz_upscale(data, width, height, clamped_scale, config, bld)
        out_width     == Mul(width, clamped_scale)
        out_height    == Mul(height, clamped_scale)
    IN  IF output.panic THEN Failed(output.why)
        ELSE IF bld = "debug" /\ (Overflows(out_width) \/ Overflows(out_height))
             THEN Failed("overflow")
        ELSE Rendered(output.buf, Wrap(out_width), Wrap(out_height))

xbrz_upscale_config(m, data, width, height, scale_, config, bld) ==
    hand_over(m, xbrz_render(data, width, height, scale_, config, bld))

wasm_xbrz_upscale(m, data, width, height, scale_, bld) ==
    xbrz_upscale_config(m, data, width, height, scale_, DefaultConfig, bld)

(***************************************************************************)
(* crt.rs and hex.rs, as far as the handoff needs them: the clamped scale, *)
(* the output dimensions, the zero-initialised allocation and the ways the *)
(* pixel loop can fail.  The loops write pixels in place and never change  *)
(* the length of the buffer; the pixel values they compute (floating-point *)
(* shading, hexagon lookup) are not modelled and the buffer is kept as     *)
(* allocated.                                                              *)
(***************************************************************************)
zeroes(n) == [i \in 1..n |-> 0]

\* crt::crt_upscale: the outcomes possible.  The loop reads the source
\* through raw pointers, so a source shorter than src_w * src_h * 4 is read
\* past its end: the call traps or carries on with whatever it read.
crt_upscale(input, src_w, src_h, scale_, bld) ==
    LET scl     == clamp(scale_, U(2), U(32))
        out_w   == Mul(src_w, scl)
        out_h   == Mul(src_h, scl)
        area    == Mul(Wrap(out_w), Wrap(out_h))
        bytes   == Mul(Wrap(area), U(PixelSize))
        needed  == Mul(Mul(src_w, src_h), U(PixelSize))
    IN  IF bld = "debug" /\ (Overflows(out_w) \/ Overflows(out_h)
                             \/ Overflows(area) \/ Overflows(bytes))
        THEN {Panic("overflow")}
        ELSE IF alloc_fails(Wrap(bytes), 1) THEN {Panic("alloc")}
        ELSE {Ok(zeroes(ToNat(Wrap(bytes))))}
             \cup IF Wrap(bytes) # U(0) /\ Less(U(Len(input)), needed)
                  THEN {Panic("oob")} ELSE {}

\* crt_upscale_config up to its call of update_buffer: the outcomes possible
crt_render(data, width, height, scale_, bld) ==
    LET out_width  == Mul(width, scale_)
        out_height == Mul(height, scale_)
    IN  {IF output.panic THEN Failed(output.why)
         ELSE IF bld = "debug" /\ (Overflows(out_width) \/ Overflows(out_height))
              THEN Failed("overflow")
         ELSE Rendered(output.buf, Wrap(out_width), Wrap(out_height)) :
         output \in crt_upscale(data, width, height, scale_, bld)}

crt_upscale_config(m, data, width, height, scale_, bld) ==
    {hand_over(m, r) : r \in crt_render(data, width, height, scale_, bld)}

wasm_crt_upscale(m, data, width, height, scale_, bld) ==
    crt_upscale_config(m, data, width, height, scale_, bld)

\* ceil(m * sqrt(3) / 2): the least n with 4 n^2 >= 3 m^2
ceil_sqrt3_half(m) ==
    CHOOSE n \in 0..m : 4 * n * n >= 3 * m * m /\ (n = 0 \/ 4 * (n - 1) * (n - 1) < 3 * m * m)

\* HexGeometry::new + output_dimensions: (out_w, out_h) for a hexagon of
\* `size` pixels; orientation 0 is FlatTop, anything else PointyTop.
\*   FlatTop:   out_w = ceil((w-1) * 1.5 size + 2 size)
\*              out_h = ceil((h-1) * size sqrt3 + size sqrt3 + size sqrt3 / 2)
\*   PointyTop: the same with width and height exchanged.
output_dimensions(size, orientation, input_width, input_height) ==
    LET along(n)  == (size * (3 * n + 1) + 1) \div 2
        across(n) == ceil_sqrt3_half(size * (2 * n + 1))
    IN  IF orientation = 0
        THEN <<along(input_width), across(input_height)>>
        ELSE <<across(input_width), along(input_height)>>

get_output_dimensions(src_w, src_h, scale_, orientation) ==
    LET scl  == clamp(scale_, U(2), U(32))
        size == IF ToNat(scl) > 2 THEN ToNat(scl) ELSE 2
    IN  output_dimensions(size, orientation, ToNat(src_w), ToNat(src_h))

\* hex::hex_upscale with draw_borders off: every cell of the src_w x src_h
\* grid is looked up, with a checked slice index into the source.
hex_upscale(input, src_w, src_h, scale_, orientation) ==
    LET dims == get_output_dimensions(src_w, src_h, scale_, orientation)
        n    == dims[1] * dims[2] * PixelSize
    IN  IF Len(input) < ToNat(src_w) * ToNat(src_h) * PixelSize
        THEN Panic("index")
        ELSE Ok(zeroes(n))

\* hex_upscale_config up to its call of update_buffer
hex_render(data, width, height, scale_, orientation) ==
    LET dims   == get_output_dimensions(width, height, scale_, orientation)
        output == hex_upscale(data, width, height, scale_, orientation)
    IN  IF output.panic THEN Failed(output.why)
        ELSE Rendered(output.buf, U(dims[1]), U(dims[2]))

hex_upscale_config(m, data, width, height, scale_, orientation) ==
    hand_over(m, hex_render(data, width, height, scale_, orientation))

wasm_hex_upscale(m, data, width, height, scale_) ==
    hex_upscale_config(m, data, width, height, scale_, 0)

(***************************************************************************)
(* Inputs.                                                                 *)
(***************************************************************************)
Palette == {<<0, 0, 0, 255>>, <<255, 255, 255, 0>>}

Stray(e) == [i \in 1..e |-> 0]

Sources ==
    UNION {{from_raw_parts(img) \o Stray(e) : img \in [1..n -> Palette]} :
           n \in 0..MaxPixels, e \in 0..MaxExtra}

SmallDims == {U(n) : n \in 0..MaxDim}

\* width and height: small, or one of them 2^31
DimPairs == (SmallDims \cup {BigDim}) \X SmallDims \cup SmallDims \X {BigDim}

Scales == {U(n) : n \in 0..MaxScale} \cup {u32_MAX}

Builds == {"debug", "release"}

(***************************************************************************)
(* SpecUpscale: one call of one xBRZ entry point.                          *)
(***************************************************************************)
NoCall == [data |-> <<>>, dims |-> <<U(0), U(0)>>, scale |-> U(0), config |-> DefaultConfig]

Pending == [fn |-> "none", panic |-> FALSE, why |-> "none", buf |-> <<>>, rec |-> NoRecord]

Returned(fn, o) == [fn |-> fn, panic |-> o.panic, why |-> o.why, buf |-> o.buf, rec |-> NoRecord]

Handed(fn, r) ==
    [fn |-> fn, panic |-> r.panic, why |-> r.why, buf |-> r.output, rec |-> r.rec]

\* what the host holds after a call: the record of the latest call that
\* returned, the output that call produced, and the places earlier records name
NothingReturned == [valid |-> FALSE, rec |-> NoRecord, output |-> <<>>, earlier |-> {}]

Deliver(res, r) ==
    IF r.panic THEN res
    ELSE [valid   |-> TRUE,
          rec     |-> r.rec,
          output  |-> r.output,
          earlier |-> res.earlier \cup
                      (IF res.valid /\ res.rec.ptr # 0 THEN {res.rec.ptr} ELSE {})]

(***************************************************************************)
(* xbrz/ycbcr_lookup.rs: the lazily built distance table.                  *)
(*                                                                         *)
(* LOOKUP_INSTANCE is the static Option<YCbCrLookup>: None, Some(table),   *)
(* or caught in the middle of the (two-word, non-atomic) store.  The table *)
(* is followed at the indices SampleKeys.  An entry is dist_ycbcr of three *)
(* channel differences; it is written here as those three differences, of  *)
(* which the stored distance is a function.                                *)
(***************************************************************************)
TableSize == 32768

SampleKeys == {0, 1015, 17 * 1024 + 3 * 32 + 30, TableSize - 1}

Threads == 1..NumThreads

\* u8_as_i8 leaving the byte unsigned
u8_as_i8_unsigned(v) == v

u8_as_i8(v) == IF v >= 128 THEN v - 256 ELSE v

\* new_small's loop body: the differences handed to dist_ycbcr for index i
new_small_entry(i) ==
    [r_diff |-> u8_as_i8((((i \div 1024) % 32) * 8) % 256) * 2,
     g_diff |-> u8_as_i8((((i \div 32) % 32) * 8) % 256) * 2,
     b_diff |-> u8_as_i8(((i % 32) * 8) % 256) * 2,
     built  |-> TRUE]

\* what a read finds where no table entry has been written
Garbage == [r_diff |-> 0, g_diff |-> 0, b_diff |-> 0, built |-> FALSE]

\* Self::IDiff555(lookup.into_boxed_slice()) for a Vec filled to `len`
new_small(len) ==
    [k \in SampleKeys |-> IF k < len THEN new_small_entry(k) ELSE Garbage]

None == [tag |-> "None", table |-> [k \in SampleKeys |-> Garbage], writes |-> 0]

\* the loop `for i in 0..0x8000` advances by this many pushes in one step
BuildStride == (TableSize + BuildSteps - 1) \div BuildSteps

\* parking_lot::Once::call_once: the closure runs for the caller that finds
\* the Once new, and only for that one
once_may_run_any_unfinished(state) == state # "done"

once_may_run(state) == state = "new"

\* the state the Once takes while the closure of the winning caller runs
once_claimed_done == "done"

once_claimed == "locked"

Idle == [op |-> "none", at |-> "idle"]

NothingSeen == [kind |-> "none", key |-> 0, value |-> Garbage, some |-> FALSE]

InitLookup ==
    /\ LOOKUP_INSTANCE = None
    /\ LOOKUP_LOCK = "new"
    /\ tpc = [t \in Threads |-> Idle]
    /\ lookup = [t \in Threads |-> 0]
    /\ seen = [t \in Threads |-> NothingSeen]
    /\ builds = 0

(***************************************************************************)
(* xbrz/ycbcr_lookup.rs: dist_ycbcr, dist_rgb and dist.                    *)
(*                                                                         *)
(* dist_ycbcr works in f64.  Its constants are decimal fractions, written  *)
(* here in units of 1/K_UNIT, and the distance is evaluated exactly: the   *)
(* value returned is floor(dist * SCALE + 0.5) for the real number dist.   *)
(* The intermediate values exceed the checker's integers, so the squares   *)
(* are formed on multi-limb naturals (little-endian, base Limb).  For the  *)
(* 32 768 argument triples new_small passes, the f64 evaluation rounds to  *)
(* the same integer as the exact one.                                      *)
(***************************************************************************)
SCALE_SHIFT == 8

SCALE == 2 ^ SCALE_SHIFT

K_UNIT == 100 * 100

K_B == 593

K_R == 2627

K_G == K_UNIT - K_B - K_R

Limb == Half \div 2

\* the natural n < 2^31 as limbs
Big(n) == <<n % Limb, (n \div Limb) % Limb, n \div (Limb * Limb)>>

limb(a, i) == IF i <= Len(a) THEN a[i] ELSE 0

RECURSIVE big_add(_, _, _, _)
big_add(a, b, i, carry) ==
    IF i > Len(a) /\ i > Len(b)
    THEN IF carry = 0 THEN <<>> ELSE <<carry>>
    ELSE LET s == limb(a, i) + limb(b, i) + carry
         IN  <<s % Limb>> \o big_add(a, b, i + 1, s \div Limb)

BigAdd(a, b) == big_add(a, b, 1, 0)

RECURSIVE big_mul_small(_, _, _, _)
big_mul_small(a, m, i, carry) ==
    IF i > Len(a)
    THEN IF carry = 0 THEN <<>> ELSE <<carry>>
    ELSE LET s == a[i] * m + carry
         IN  <<s % Limb>> \o big_mul_small(a, m, i + 1, s \div Limb)

RECURSIVE big_mul(_, _, _)
big_mul(a, b, j) ==
    IF j > Len(b) THEN <<>>
    ELSE BigAdd(big_mul_small(a, b[j], 1, 0), <<0>> \o big_mul(a, b, j + 1))

BigMul(a, b) == big_mul(a, b, 1)

RECURSIVE big_leq(_, _, _)
big_leq(a, b, i) ==
    IF i = 0 THEN TRUE
    ELSE IF limb(a, i) # limb(b, i) THEN limb(a, i) < limb(b, i)
    ELSE big_leq(a, b, i - 1)

BigLeq(a, b) == big_leq(a, b, IF Len(a) > Len(b) THEN Len(a) ELSE Len(b))

BigSquare(n) == BigMul(Big(n), Big(n))

\* y = y10k / K_UNIT with y10k = K_R r + K_G g + K_B b (in units);
\* c_b = SCALE_B (b - y) = (K_UNIT b - y10k) / (2 (K_UNIT - K_B));
\* c_r = SCALE_R (r - y) = (K_UNIT r - y10k) / (2 (K_UNIT - K_R)).
\* The squares of the three denominators, and their products:
DenY == BigSquare(K_UNIT)

DenB == BigSquare(2 * (K_UNIT - K_B))

DenR == BigSquare(2 * (K_UNIT - K_R))

DenBR == BigMul(DenB, DenR)

DenYR == BigMul(DenY, DenR)

DenYB == BigMul(DenY, DenB)

Den == BigMul(DenY, DenBR)

\* floor(sqrt(s)) for a small natural s, searched in lo..hi
RECURSIVE isqrt(_, _, _)
isqrt(s, lo, hi) ==
    IF lo = hi THEN lo
    ELSE LET mid == (lo + hi + 1) \div 2
         IN  IF mid * mid <= s THEN isqrt(s, mid, hi) ELSE isqrt(s, lo, mid - 1)

\* the largest n in lo..hi with n * n * Den <= num (lo is known to qualify)
RECURSIVE big_isqrt(_, _, _)
big_isqrt(num, lo, hi) ==
    IF lo = hi THEN lo
    ELSE LET mid == (lo + hi + 1) \div 2
         IN  IF BigLeq(BigMul(Den, BigSquare(mid)), num)
             THEN big_isqrt(num, mid, hi)
             ELSE big_isqrt(num, lo, mid - 1)

\* floor(k * x / d) without forming k * x
scaled(k, x, d) == (x \div d) * k + ((x % d) * k) \div d

\* dist_ycbcr: (dist * SCALE + 0.5) as u32 with dist = sqrt(y^2 + c_b^2 + c_r^2).
\* With t = (2 SCALE)^2 (y^2 + c_b^2 + c_r^2) = num / Den and n = floor(sqrt(t)),
\* the result is (n + 1) div 2.  n is first bracketed with small integers
\* (s1, s2, s3 are the three components of 2 SCALE dist, each divided by 16 and
\* rounded down) and then found exactly; were the bracket ever wrong, the
\* whole range is searched.
dist_ycbcr(r_diff, g_diff, b_diff) ==
    LET y10k == K_R * r_diff + K_G * g_diff + K_B * b_diff
        nb   == K_UNIT * b_diff - y10k
        nr   == K_UNIT * r_diff - y10k
        num  == BigMul(Big(4 * SCALE * SCALE),
                  BigAdd(BigMul(DenBR, BigSquare(Abs(y10k))),
                  BigAdd(BigMul(DenYR, BigSquare(Abs(nb))),
                         BigMul(DenYB, BigSquare(Abs(nr))))))
        s1   == scaled((2 * SCALE) \div 16, Abs(y10k), K_UNIT)
        s2   == scaled(SCALE \div 16, Abs(nb), K_UNIT - K_B)
        s3   == scaled(SCALE \div 16, Abs(nr), K_UNIT - K_R)
        m    == isqrt(s1 * s1 + s2 * s2 + s3 * s3, 0, Limb - 1)
        n0   == big_isqrt(num, 16 * m, 16 * m + 63)
        n    == IF n0 < 16 * m + 63 THEN n0 ELSE big_isqrt(num, 0, 16 * Half - 1)
    IN  (n + 1) \div 2

\* the entry new_small pushes for index i
table_entry(i) ==
    LET e == new_small_entry(i) IN dist_ycbcr(e.r_diff, e.g_diff, e.b_diff)

\* Pixel::to_rgb and Pixel::alpha of an Rgba8
to_rgb(pix) == <<pix[1], pix[2], pix[3]>>

alpha(pix) == pix[4]

u8_MAX == 255

\* i16 division, truncating toward zero
i16_div(x, n) == IF x < 0 THEN -((-x) \div n) ELSE x \div n

\* `as i8` and `as u8` of an i16 / i8: the low eight bits
as_i8(x) == u8_as_i8((x + Half) % 256)

as_u8(x) == (x + Half) % 256

\* `as usize` of a non-negative value, `<<` and `>>` on usize
shl(a, n) == a * 2 ^ n

shr(a, n) == a \div 2 ^ n

RECURSIVE bit_or(_, _)
bit_or(a, b) ==
    IF a = 0 THEN b
    ELSE IF b = 0 THEN a
    ELSE 2 * bit_or(a \div 2, b \div 2) + (IF a % 2 = 1 \/ b % 2 = 1 THEN 1 ELSE 0)

\* the half-difference widened without the 8-bit reinterpretation
\* ((c1 - c2) / 2) as u16 as usize
half_diff_part_wide(c1, c2) == (i16_div(c1 - c2, 2) + Half) % Half

\* r_part, g_part, b_part: (((c1 as i16) - (c2 as i16)) / 2) as i8 as u8
half_diff_part(c1, c2) == as_u8(as_i8(i16_div(c1 - c2, 2)))

\* the index dist_rgb hands to get_unchecked
lookup_key(rgb1, rgb2) ==
    bit_or(bit_or(shl(shr(half_diff_part(rgb1[1], rgb2[1]), 3), 10),
                  shl(shr(half_diff_part(rgb1[2], rgb2[2]), 3), 5)),
           shr(half_diff_part(rgb1[3], rgb2[3]), 3))

\* dist_rgb on the table new_small built.  get_unchecked outside the table
\* is undefined: `junk` is what such a read finds.  Besides the value
\* returned (d) the record keeps the index used and whether it lay inside.
dist_rgb(rgb1, rgb2, junk) ==
    LET key == lookup_key(rgb1, rgb2)
    IN  [key       |-> key,
         in_bounds |-> key < TableSize,
         d         |-> IF key < TableSize THEN table_entry(key) ELSE junk]

\* dist dividing by 255 and scaling the alpha term by 255 * 256
dist_div_255(pixel1, pixel2, junk) ==
    LET a1    == alpha(pixel1)
        a2    == alpha(pixel2)
        found == dist_rgb(to_rgb(pixel1), to_rgb(pixel2), junk)
        a_min == IF a1 < a2 THEN a1 ELSE a2
        a_diff == IF a1 < a2 THEN a2 - a1 ELSE a1 - a2
    IN  IF a1 = 255 /\ a2 = 255 THEN found
        ELSE [found EXCEPT !.d = ((found.d * a_min) \div 255) + (a_diff * 255 * 256)]

\* dist adding the alpha difference outside the fixed-point domain
dist_alpha_unscaled(pixel1, pixel2, junk) ==
    LET a1    == alpha(pixel1)
        a2    == alpha(pixel2)
        found == dist_rgb(to_rgb(pixel1), to_rgb(pixel2), junk)
        a_min == IF a1 < a2 THEN a1 ELSE a2
        a_diff == IF a1 < a2 THEN a2 - a1 ELSE a1 - a2
    IN  IF a1 = 255 /\ a2 = 255 THEN found
        ELSE [found EXCEPT !.d = shr(found.d * a_min, 8) + (a_diff * 255)]

\* dist.  d * a_min stays far below 2^32 for every table entry (the largest
\* is below 2^17), so the u32 arithmetic neither wraps nor panics.
dist(pixel1, pixel2, junk) ==
    LET a1    == alpha(pixel1)
        a2    == alpha(pixel2)
        found == dist_rgb(to_rgb(pixel1), to_rgb(pixel2), junk)
        a_min == IF a1 < a2 THEN a1 ELSE a2
        a_diff == IF a1 < a2 THEN a2 - a1 ELSE a1 - a2
    IN  IF a1 = 255 /\ a2 = 255 THEN found
        ELSE [found EXCEPT !.d = shr(found.d * a_min, 8) + (a_diff * 65280)]

NoPixel == <<0, 0, 0, 0>>

NotMeasured == [fn |-> "none", key |-> 0, in_bounds |-> TRUE, d |-> 0]

Measured(fn, found) ==
    [fn |-> fn, key |-> found.key, in_bounds |-> found.in_bounds, d |-> found.d]

IdleDist ==
    /\ pix1 = NoPixel
    /\ pix2 = NoPixel
    /\ measured = NotMeasured

InitUpscale ==
    /\ build \in Builds
    /\ call \in [data : Sources, dims : DimPairs, scale : Scales, config : Configs]
    /\ out = Pending
    /\ mem = InitMem
    /\ result = NothingReturned
    /\ calls = 0
    /\ InitLookup
    /\ IdleDist

CallScaleRgba ==
    /\ out.fn = "none"
    /\ out' = Returned("scale_rgba",
                       scale_rgba(call.data, call.dims[1], call.dims[2], call.scale, build))
    /\ UNCHANGED <<build, call, hostVars, lookupVars, distVars>>

CallScaleRgbaConfig ==
    /\ out.fn = "none"
    /\ out' = Returned("scale_rgba_config",
                       scale_rgba_config(call.data, call.dims[1], call.dims[2], call.scale,
                                         call.config, build))
    /\ UNCHANGED <<build, call, hostVars, lookupVars, distVars>>

CallXbrzUpscale ==
    /\ out.fn = "none"
    /\ out' = Returned("xbrz_upscale",
                       xbrz_upscale(call.data, call.dims[1], call.dims[2], call.scale,
                                    call.config, build))
    /\ UNCHANGED <<build, call, hostVars, lookupVars, distVars>>

CallXbrzUpscaleConfig ==
    /\ out.fn = "none"
    /\ LET r == xbrz_upscale_config(mem, call.data, call.dims[1], call.dims[2],
                                    call.scale, call.config, build)
       IN  /\ out' = Handed("xbrz_upscale_config", r)
           /\ mem' = r.mem
           /\ result' = Deliver(result, r)
           /\ calls' = calls + 1
    /\ UNCHANGED <<build, call, lookupVars, distVars>>

\* lib.rs crt_upscale_config on the same arguments (the CRT configuration
\* does not bear on the buffer's size or on the record)
CallCrtUpscaleConfig ==
    /\ out.fn = "none"
    /\ \E r \in crt_upscale_config(mem, call.data, call.dims[1], call.dims[2],
                                   call.scale, build) :
          /\ out' = Handed("crt_upscale_config", r)
          /\ mem' = r.mem
          /\ result' = Deliver(result, r)
          /\ calls' = calls + 1
    /\ UNCHANGED <<build, call, lookupVars, distVars>>

NextUpscale ==
    \/ CallScaleRgba
    \/ CallScaleRgbaConfig
    \/ CallXbrzUpscale
    \/ CallXbrzUpscaleConfig
    \/ CallCrtUpscaleConfig

SpecUpscale == InitUpscale /\ [][NextUpscale]_vars

(***************************************************************************)
(* SpecLookup: threads calling YCbCrLookup::instance(), initialise() and   *)
(* instance_is_initialised(), interleaved step by step.                    *)
(***************************************************************************)
InitThreads ==
    /\ build \in Builds
    /\ call = NoCall
    /\ out = Pending
    /\ mem = InitMem
    /\ result = NothingReturned
    /\ calls = 0
    /\ InitLookup
    /\ IdleDist

At(t, where) == tpc[t].at = where

Goto(t, where) == tpc' = [tpc EXCEPT ![t].at = where]

restOfLookup == <<build, upscaleVars, hostVars, distVars>>

\* a thread calls instance() or initialise()
Enter(t) ==
    /\ At(t, "idle")
    /\ \E op \in {"instance", "initialise"} :
          tpc' = [tpc EXCEPT ![t] = [op |-> op, at |-> "call_once"]]
    /\ UNCHANGED <<LOOKUP_INSTANCE, LOOKUP_LOCK, lookup, seen, builds, restOfLookup>>

\* LOOKUP_LOCK.call_once(..): return at once when done, run the closure when
\* new, park while another caller runs it
CallOnce(t) ==
    /\ At(t, "call_once")
    /\ IF LOOKUP_LOCK = "done"
       THEN /\ Goto(t, "after_once")
            /\ UNCHANGED <<LOOKUP_LOCK, lookup, builds>>
       ELSE IF once_may_run(LOOKUP_LOCK)
       THEN /\ LOOKUP_LOCK' = once_claimed
            /\ Goto(t, "new_small")
            /\ lookup' = [lookup EXCEPT ![t] = 0]
            /\ builds' = builds + 1
       ELSE /\ Goto(t, "parked")
            /\ UNCHANGED <<LOOKUP_LOCK, lookup, builds>>
    /\ UNCHANGED <<LOOKUP_INSTANCE, seen, restOfLookup>>

\* a parked caller is woken once the closure has finished
Unpark(t) ==
    /\ At(t, "parked")
    /\ LOOKUP_LOCK = "done"
    /\ Goto(t, "after_once")
    /\ UNCHANGED <<LOOKUP_INSTANCE, LOOKUP_LOCK, lookup, seen, builds, restOfLookup>>

\* new_small: lookup.push(dist_ycbcr(..)) for the next indices
NewSmallPush(t) ==
    /\ At(t, "new_small")
    /\ lookup[t] < TableSize
    /\ lookup' = [lookup EXCEPT ![t] =
                    IF lookup[t] + BuildStride > TableSize THEN TableSize
                    ELSE lookup[t] + BuildStride]
    /\ UNCHANGED <<LOOKUP_INSTANCE, LOOKUP_LOCK, tpc, seen, builds, restOfLookup>>

\* LOOKUP_INSTANCE = Some(..): the first word of the store
StoreBegin(t) ==
    /\ At(t, "new_small")
    /\ lookup[t] = TableSize
    /\ LOOKUP_INSTANCE' = [tag |-> "Torn", table |-> LOOKUP_INSTANCE.table,
                           writes |-> LOOKUP_INSTANCE.writes + 1]
    /\ Goto(t, "storing")
    /\ UNCHANGED <<LOOKUP_LOCK, lookup, seen, builds, restOfLookup>>

\* LOOKUP_INSTANCE = Some(..): the store complete
StoreEnd(t) ==
    /\ At(t, "storing")
    /\ LOOKUP_INSTANCE' = [tag |-> "Some", table |-> new_small(lookup[t]),
                           writes |-> LOOKUP_INSTANCE.writes]
    /\ Goto(t, "closure_done")
    /\ UNCHANGED <<LOOKUP_LOCK, lookup, seen, builds, restOfLookup>>

\* the closure has returned: the Once becomes done and parked callers wake
FinishOnce(t) ==
    /\ At(t, "closure_done")
    /\ LOOKUP_LOCK' = "done"
    /\ Goto(t, "after_once")
    /\ UNCHANGED <<LOOKUP_INSTANCE, lookup, seen, builds, restOfLookup>>

\* initialise() returns; instance() goes on to instance_unchecked()
AfterOnce(t) ==
    /\ At(t, "after_once")
    /\ IF tpc[t].op = "initialise"
       THEN tpc' = [tpc EXCEPT ![t] = Idle]
       ELSE Goto(t, "unchecked")
    /\ UNCHANGED <<LOOKUP_INSTANCE, LOOKUP_LOCK, lookup, seen, builds, restOfLookup>>

\* instance_unchecked(): LOOKUP_INSTANCE.as_ref().unwrap_unchecked().  On
\* anything but a complete Some the behaviour is undefined: the caller gets a
\* reference to whatever lies there.
InstanceUnchecked(t) ==
    /\ At(t, "unchecked")
    /\ seen' = [seen EXCEPT ![t] =
                  [kind |-> "reference", key |-> 0, value |-> Garbage,
                   some |-> LOOKUP_INSTANCE.tag = "Some"]]
    /\ Goto(t, "holding")
    /\ UNCHANGED <<LOOKUP_INSTANCE, LOOKUP_LOCK, lookup, builds, restOfLookup>>

\* a table entry read through the returned &'static reference
ReadEntry(t) ==
    /\ At(t, "holding")
    /\ \E k \in SampleKeys :
          seen' = [seen EXCEPT ![t] =
                     [kind |-> "entry", key |-> k,
                      value |-> IF LOOKUP_INSTANCE.tag = "Some"
                                THEN LOOKUP_INSTANCE.table[k] ELSE Garbage,
                      some |-> LOOKUP_INSTANCE.tag = "Some"]]
    /\ UNCHANGED <<LOOKUP_INSTANCE, LOOKUP_LOCK, tpc, lookup, builds, restOfLookup>>

\* the caller is done with this use of the table (the reference stays valid)
Leave(t) ==
    /\ At(t, "holding")
    /\ seen[t].kind = "entry"
    /\ tpc' = [tpc EXCEPT ![t] = Idle]
    /\ UNCHANGED <<LOOKUP_INSTANCE, LOOKUP_LOCK, lookup, seen, builds, restOfLookup>>

\* instance_is_initialised(): an unsynchronised read of LOOKUP_INSTANCE; in
\* the middle of the store it may find either answer
InstanceIsInitialised(t) ==
    /\ At(t, "idle")
    /\ \E b \in (IF LOOKUP_INSTANCE.tag = "Torn" THEN BOOLEAN
                 ELSE {LOOKUP_INSTANCE.tag = "Some"}) :
          seen' = [seen EXCEPT ![t] =
                     [kind |-> "is_some", key |-> 0, value |-> Garbage, some |-> b]]
    /\ UNCHANGED <<LOOKUP_INSTANCE, LOOKUP_LOCK, tpc, lookup, builds, restOfLookup>>

NextLookup ==
    \E t \in Threads :
        \/ Enter(t)
        \/ CallOnce(t)
        \/ Unpark(t)
        \/ NewSmallPush(t)
        \/ StoreBegin(t)
        \/ StoreEnd(t)
        \/ FinishOnce(t)
        \/ AfterOnce(t)
        \/ InstanceUnchecked(t)
        \/ ReadEntry(t)
        \/ Leave(t)
        \/ InstanceIsInitialised(t)

SpecLookup == InitThreads /\ [][NextLookup]_vars

(***************************************************************************)
(* SpecDist: one call of dist or dist_rgb on the built table, for a pair   *)
(* of pixels drawn from                                                    *)
(*   - every pair of sample pixels (sample colours x sample alphas), and   *)
(*   - the opaque greys (c,c,c) against black and white, in both orders:   *)
(*     every channel difference -255..255 occurs, in every channel.        *)
(***************************************************************************)
ColourSamples ==
    {<<0, 0, 0>>, <<u8_MAX, u8_MAX, u8_MAX>>, <<0, 0, u8_MAX>>, <<u8_MAX, u8_MAX, 0>>,
     <<2, 0, 0>>, <<17, 130, 77>>}

AlphaSamples == {0, 1, 128, u8_MAX - 1, u8_MAX}

PixelSamples == {<<c[1], c[2], c[3], a>> : c \in ColourSamples, a \in AlphaSamples}

Grey(c) == <<c, c, c, u8_MAX>>

PixelPairs ==
    (PixelSamples \X PixelSamples)
    \cup {<<Grey(c), Grey(e)>> : c \in 0..u8_MAX, e \in {0, u8_MAX}}
    \cup {<<Grey(e), Grey(c)>> : c \in 0..u8_MAX, e \in {0, u8_MAX}}

\* what a read past the table could find
Junk == {0, 1, Half}

InitDist ==
    /\ build \in Builds
    /\ call = NoCall
    /\ out = Pending
    /\ mem = InitMem
    /\ result = NothingReturned
    /\ calls = 0
    /\ LOOKUP_INSTANCE = [tag |-> "Some", table |-> new_small(TableSize), writes |-> 1]
    /\ LOOKUP_LOCK = "done"
    /\ tpc = [t \in Threads |-> Idle]
    /\ lookup = [t \in Threads |-> 0]
    /\ seen = [t \in Threads |-> NothingSeen]
    /\ builds = 1
    /\ \E pair \in PixelPairs : pix1 = pair[1] /\ pix2 = pair[2]
    /\ measured = NotMeasured

restOfDist == <<build, upscaleVars, hostVars, lookupVars, pix1, pix2>>

\* YCbCrLookup::instance().dist_rgb(pix1.to_rgb(), pix2.to_rgb())
CallDistRgb ==
    /\ measured.fn = "none"
    /\ \E junk \in (IF lookup_key(to_rgb(pix1), to_rgb(pix2)) < TableSize THEN {0} ELSE Junk) :
          measured' = Measured("dist_rgb", dist_rgb(to_rgb(pix1), to_rgb(pix2), junk))
    /\ UNCHANGED restOfDist

\* YCbCrLookup::instance().dist(pix1, pix2)
CallDist ==
    /\ measured.fn = "none"
    /\ \E junk \in (IF lookup_key(to_rgb(pix1), to_rgb(pix2)) < TableSize THEN {0} ELSE Junk) :
          measured' = Measured("dist", dist(pix1, pix2, junk))
    /\ UNCHANGED restOfDist

NextDist ==
    \/ CallDistRgb
    \/ CallDist

SpecDist == InitDist /\ [][NextDist]_vars

(***************************************************************************)
(* Spec: the host calls the exported functions one after another; each     *)
(* call runs to its end (wasm is single-threaded) and either returns a     *)
(* record or fails, after which the host may call again.                   *)
(***************************************************************************)
\* the host's sources: pixels of one colour
HostSources ==
    {from_raw_parts([i \in 1..n |-> <<0, 0, 0, 255>>]) \o Stray(e) :
     n \in 0..MaxPixels, e \in 0..MaxExtra}

HostSizes == SmallDims \X SmallDims        \* crt and hex: in-range dimensions

HostScales == {U(n) : n \in 0..MaxHostScale}

\* Everything each wrapper can have in hand at update_buffer over the host's
\* inputs.  A renderer's outcome does not depend on SHARED_BUFFER, so the
\* images of the input sets are formed once, per build.
XbrzDefaultCalls ==
    [b \in Builds |->
        {xbrz_render(data, d[1], d[2], sc, DefaultConfig, b) :
         data \in HostSources, d \in DimPairs, sc \in HostScales \cup {u32_MAX}}]

XbrzConfigCalls ==
    [b \in Builds |->
        UNION {{xbrz_render(data, d[1], d[2], sc, config, b) :
                data \in HostSources, d \in DimPairs, sc \in HostScales \cup {u32_MAX}} :
               config \in Configs}]

CrtCalls ==
    [b \in Builds |->
        UNION {crt_render(c[1], c[2][1], c[2][2], c[3], b) :
               c \in HostSources \X HostSizes \X HostScales}]

HexDefaultCalls ==
    {hex_render(data, d[1], d[2], sc, 0) :
     data \in HostSources, d \in HostSizes, sc \in HostScales}

HexConfigCalls ==
    UNION {{hex_render(data, d[1], d[2], sc, orientation) :
            data \in HostSources, d \in HostSizes, sc \in HostScales} :
           orientation \in {0, 1}}

Init ==
    /\ build \in Builds
    /\ call = NoCall
    /\ out = Pending
    /\ mem = InitMem
    /\ result = NothingReturned
    /\ calls = 0
    /\ InitLookup
    /\ IdleDist

\* one exported function called and run to its end or to its panic
HostStep(renderer, r) ==
    LET done == hand_over(mem, r)
    IN  /\ out' = Handed(renderer, done)
        /\ mem' = done.mem
        /\ result' = Deliver(result, done)
        /\ calls' = calls + 1
        /\ UNCHANGED <<build, call, lookupVars, distVars>>

\* lib.rs xbrz_upscale (default configuration)
XbrzUpscale ==
    /\ calls < MaxCalls
    /\ \E r \in XbrzDefaultCalls[build] : HostStep("xbrz", r)

XbrzUpscaleConfig ==
    /\ calls < MaxCalls
    /\ \E r \in XbrzConfigCalls[build] : HostStep("xbrz", r)

\* lib.rs crt_upscale (default configuration)
CrtUpscale ==
    /\ calls < MaxCalls
    /\ \E r \in CrtCalls[build] : HostStep("crt", r)

CrtUpscaleConfig ==
    /\ calls < MaxCalls
    /\ \E r \in CrtCalls[build] : HostStep("crt", r)

\* lib.rs hex_upscale (default configuration)
HexUpscale ==
    /\ calls < MaxCalls
    /\ \E r \in HexDefaultCalls : HostStep("hex", r)

HexUpscaleConfig ==
    /\ calls < MaxCalls
    /\ \E r \in HexConfigCalls : HostStep("hex", r)

Next ==
    \/ XbrzUpscale
    \/ XbrzUpscaleConfig
    \/ CrtUpscale
    \/ CrtUpscaleConfig
    \/ HexUpscale
    \/ HexUpscaleConfig

Spec == Init /\ [][Next]_vars

(***************************************************************************)
(* Claims about one xBRZ call (checked under SpecUpscale).                 *)
(***************************************************************************)
CoreFns == {"scale_rgba", "scale_rgba_config", "xbrz_upscale"}

ZeroDim == call.dims[1] = U(0) \/ call.dims[2] = U(0)

InFactorRange(lo, hi) == ~ Less(call.scale, U(lo)) /\ ~ Less(U(hi), call.scale)

\* the exact (unwrapped) value of src_width * src_height * 4
ExactSourceLen == Mul(Mul(call.dims[1], call.dims[2]), U(PixelSize))

WellFormed == U(Len(call.data)) = ExactSourceLen

\* C1: xbrz_upscale with scale 1 returns a buffer byte-for-byte identical to
\* its source (same length, same bytes, same order), whatever the source, the
\* width, the height and the configuration; the host wrapper hands over the
\* same bytes.
C1_IdentityAtFactorOne ==
    (out.fn \in {"xbrz_upscale", "xbrz_upscale_config"} /\ call.scale = U(1))
        => (~ out.panic /\ out.buf = call.data /\ Len(out.buf) = Len(call.data))

C1_Witness ==
    /\ out.fn = "xbrz_upscale"
    /\ call.scale = U(1)
    /\ call.dims[1] = U(0)
    /\ Len(call.data) = PixelSize * MaxPixels
    /\ out.buf = call.data

\* C2: dimension law.  For every factor f in 2..6 and every (w, h) with a
\* source of length w*h*4, the xBRZ upscale returns exactly w*f*h*f*4 bytes and
\* the record of xbrz_upscale_config has width = w*f, height = h*f and
\* len = width*height*4.
C2_DimensionLaw ==
    (out.fn \in {"xbrz_upscale", "xbrz_upscale_config"} /\ InFactorRange(2, 6) /\ WellFormed)
        => /\ ~ out.panic
           /\ U(Len(out.buf)) =
                Mul(Mul(Mul(call.dims[1], call.scale), Mul(call.dims[2], call.scale)),
                    U(PixelSize))
           /\ out.fn = "xbrz_upscale_config"
                => /\ out.rec.width = Mul(call.dims[1], call.scale)
                   /\ out.rec.height = Mul(call.dims[2], call.scale)
                   /\ out.rec.len = Mul(Mul(out.rec.width, out.rec.height), U(PixelSize))

\* (supporting C2) the dimension law as long as w*f and h*f fit the record's
\* 32-bit fields
C2_DimensionLawInRange ==
    (~ Overflows(Mul(call.dims[1], call.scale)) /\ ~ Overflows(Mul(call.dims[2], call.scale)))
        => C2_DimensionLaw

\* C3: a malformed source length is fatal.  For every factor in 1..6 and every
\* w, h, a source whose length differs from w*h*4 makes xbrz_upscale and
\* scale_rgba_config abort without returning a buffer.
C3_MalformedLengthAborts ==
    (out.fn \in {"xbrz_upscale", "scale_rgba_config"} /\ InFactorRange(1, 6) /\ ~ WellFormed)
        => out.panic

C5_FactorOutOfRangePanics ==
    (out.fn \in {"scale_rgba", "scale_rgba_config"} /\ ~ InFactorRange(1, 6)) => out.panic

\* C6: the host wrapper clamps the factor to [1, 6].  xbrz_upscale_config(scale)
\* yields the same buffer, the same record and the same outcome as the call with
\* clamp(scale, 1, 6), and never fails on the core's factor assertions.
C6_WrapperClampsFactor ==
    out.fn = "xbrz_upscale_config"
        => LET ref == xbrz_upscale_config(InitMem, call.data, call.dims[1], call.dims[2],
                                          clamp(call.scale, U(1), U(6)), call.config, build)
           IN  /\ out.panic = ref.panic
               /\ out.why = ref.why
               /\ out.buf = ref.output
               /\ mem = ref.mem
               /\ out.rec = ref.rec
               /\ out.why # "assert_factor"

C6_Witness ==
    /\ out.fn = "xbrz_upscale_config"
    /\ call.scale = u32_MAX
    /\ call.dims = <<U(2), U(1)>>
    /\ ~ out.panic
    /\ out.rec.width = U(12)
    /\ out.rec.height = U(6)
    /\ Len(out.buf) = 12 * 6 * PixelSize

\* the source is w x h whole pixels (w, h >= 1, in range), all of one value
FlatSource ==
    /\ ~ ZeroDim
    /\ ~ Overflows(ExactSourceLen)
    /\ WellFormed
    /\ \A k \in 1..Len(align_to(call.data)) : align_to(call.data)[k] = align_to(call.data)[1]

C14_CrtRecordConsistent ==
    (out.fn = "crt_upscale_config" /\ WellFormed /\ ~ Overflows(ExactSourceLen))
        => /\ ~ out.panic
           /\ out.rec.width = Mul(call.dims[1], call.scale)
           /\ out.rec.height = Mul(call.dims[2], call.scale)
           /\ out.rec.len = Mul(Mul(out.rec.width, out.rec.height), U(PixelSize))
           /\ out.rec.len = U(Len(out.buf))

(***************************************************************************)
(* Claims about the shared output buffer (checked under Spec).             *)
(***************************************************************************)
\* C7: no output on failure.  A call that fails returns no record and leaves
\* SHARED_BUFFER exactly as the last successful call left it (same Vec, same
\* bytes, same length); SHARED_BUFFER is replaced only by a call that returned,
\* and then by the complete output of that call.
C7_NoOutputOnFailure ==
    [][ /\ (calls' = calls + 1 /\ out'.panic)
            => /\ mem' = mem
               /\ result' = result
               /\ out'.rec = NoRecord
               /\ out'.buf = <<>>
        /\ (mem'.vec # mem.vec)
            => /\ ~ out'.panic
               /\ mem'.vec.bytes = out'.buf
               /\ out'.rec.len = U(Len(out'.buf)) ]_vars

C7_Witness ==
    /\ calls >= 2
    /\ out.panic
    /\ out.why = "assert_len"
    /\ result.valid
    /\ mem.vec.id = 1
    /\ mem.vec.bytes # <<>>
    /\ mem.vec.bytes = result.output

\* C8: shared output handoff.  Once a call has returned, exactly one output
\* Vec is held, it is the output of the most recent call that returned, the
\* ptr and len of the most recently returned record describe it, and every Vec
\* handed over by an earlier call has been dropped: no earlier record names a
\* Vec that is still held.
C8_SharedOutputHandoff ==
    result.valid
        => /\ mem.live = {mem.vec.id}
           /\ Cardinality(mem.live) = 1
           /\ mem.vec.bytes = result.output
           /\ result.rec.ptr = as_ptr(mem.vec)
           /\ result.rec.len = U(Len(mem.vec.bytes))
           /\ \A id \in 0..(mem.next - 1) :
                 id # mem.vec.id => (id \in mem.dropped /\ id \notin mem.live)
           /\ \A p \in result.earlier : p \in mem.dropped /\ p \notin mem.live

C8_Witness ==
    /\ calls = 2
    /\ result.valid
    /\ result.earlier = {1}
    /\ mem.vec.id = 2
    /\ mem.live = {2}
    /\ mem.dropped = {0, 1}
    /\ out.fn = "hex"
    /\ mem.vec.bytes # <<>>
    /\ result.rec.ptr = 2

(***************************************************************************)
(* Claims about the distance table (checked under SpecLookup).             *)
(***************************************************************************)
Building(t) == tpc[t].at \in {"new_small", "storing", "closure_done"}

\* C9: the distance table is built at most once.  Under every interleaving of
\* callers of instance() and initialise() the closure (new_small and the write
\* to LOOKUP_INSTANCE) is entered by one caller only and LOOKUP_INSTANCE is
\* written once; once the Once is done it has run exactly once; a caller that
\* arrives while the build runs parks and starts no build of its own.
C9_BuiltAtMostOnce ==
    /\ [](/\ builds <= 1
          /\ LOOKUP_INSTANCE.writes <= 1
          /\ Cardinality({t \in Threads : Building(t)}) <= 1
          /\ LOOKUP_LOCK = "done" => (builds = 1 /\ LOOKUP_INSTANCE.writes = 1))
    /\ [][\A t \in Threads :
            (At(t, "call_once") /\ LOOKUP_LOCK = "locked" /\ tpc'[t] # tpc[t])
                => (tpc'[t].at = "parked" /\ builds' = builds)]_vars

C9_Witness ==
    \E t1, t2 \in Threads :
        /\ tpc[t1].at = "parked"
        /\ tpc[t2].at = "new_small"
        /\ lookup[t2] > 0
        /\ lookup[t2] < TableSize
        /\ builds = 1

\* C10: no caller observes a missing, half-built or later-modified table.  A
\* caller of instance() is past call_once only when the build has completed
\* and LOOKUP_INSTANCE holds the complete table; the reference it gets is to
\* Some(table); every entry it reads equals the value new_small computed for
\* that index; and LOOKUP_INSTANCE, once Some, is never written again.
C10_TableNeverSeenUnbuilt ==
    /\ [](\A t \in Threads :
            /\ (At(t, "unchecked") \/ At(t, "holding"))
                => /\ LOOKUP_LOCK = "done"
                   /\ LOOKUP_INSTANCE.tag = "Some"
                   /\ LOOKUP_INSTANCE.table = [k \in SampleKeys |-> new_small_entry(k)]
            /\ seen[t].kind \in {"reference", "entry"} => seen[t].some
            /\ seen[t].kind = "entry" => seen[t].value = new_small_entry(seen[t].key))
    /\ [][LOOKUP_INSTANCE.tag = "Some" => LOOKUP_INSTANCE' = LOOKUP_INSTANCE]_vars

C10_Witness ==
    \E t1, t2 \in Threads :
        /\ t1 # t2
        /\ At(t1, "holding") /\ At(t2, "holding")
        /\ seen[t1].kind = "entry" /\ seen[t1].key = TableSize - 1
        /\ seen[t1].value = new_small_entry(TableSize - 1)
        /\ seen[t2].kind = "entry" /\ seen[t2].key = 0
        /\ builds = 1

(***************************************************************************)
(* Claims about the perceptual distance (checked under SpecDist).          *)
(***************************************************************************)
MinAlpha == IF alpha(pix1) < alpha(pix2) THEN alpha(pix1) ELSE alpha(pix2)

AlphaDiff == Abs(alpha(pix1) - alpha(pix2))

BothOpaque == alpha(pix1) = u8_MAX /\ alpha(pix2) = u8_MAX

\* the RGB table distance of the two pixels
RgbDistance == dist_rgb(to_rgb(pix1), to_rgb(pix2), 0).d

\* C11 (as stated): alpha-aware distance.  If both alphas are 255 dist returns
\* the RGB table distance d unchanged; otherwise it returns
\* (d * min(alpha1, alpha2)) / 255 + |alpha1 - alpha2| * 255 * 256, with integer
\* division by 255.
C11_AlphaAwareDistance ==
    measured.fn = "dist"
        => measured.d = IF BothOpaque THEN RgbDistance
                        ELSE ((RgbDistance * MinAlpha) \div 255) + AlphaDiff * 255 * 256

\* C11 (amended): if both alphas are 255 dist returns the RGB table distance d
\* unchanged; otherwise it returns ((d * min(alpha1, alpha2)) >> 8) +
\* |alpha1 - alpha2| * 65280: the product is divided by 256, rounding down,
\* and the alpha term is |alpha1 - alpha2| * 255 * 256.
C11_AlphaAwareDistanceShift ==
    measured.fn = "dist"
        => measured.d = IF BothOpaque THEN RgbDistance
                        ELSE ((RgbDistance * MinAlpha) \div 256) + AlphaDiff * 255 * 256

C11_Witness ==
    /\ measured.fn = "dist"
    /\ pix1 = <<0, 0, 0, 254>>
    /\ pix2 = <<255, 255, 255, 1>>
    /\ RgbDistance = 65536
    /\ measured.d = 256 + 253 * 65280

\* C12: alpha separation.  For a fully opaque pixel p and a fully transparent
\* pixel t, dist(p, t) is strictly greater than dist(p, q) for every fully
\* opaque q of any colour, and dist(p, t) is the same whatever the colour
\* channels of t.
C12_AlphaSeparation ==
    (measured.fn = "dist" /\ alpha(pix1) = u8_MAX /\ alpha(pix2) = 0)
        => /\ \A c \in ColourSamples :
                 measured.d > dist(pix1, <<c[1], c[2], c[3], u8_MAX>>, 0).d
           /\ \A c \in ColourSamples :
                 measured.d = dist(pix1, <<c[1], c[2], c[3], 0>>, 0).d

C12_Witness ==
    /\ measured.fn = "dist"
    /\ pix1 = <<0, 0, 255, 255>>
    /\ pix2 = <<255, 255, 0, 0>>
    /\ measured.d = 255 * 65280
    /\ dist(pix1, <<255, 255, 0, 255>>, 0).d = 86148

\* C15: the table lookup is always in bounds.  The built table has 32 768
\* entries (indices 0..32767) and the key dist_rgb computes from any two RGB
\* triples lies in 0..32767, so the unchecked index reads inside the table.
C15_LookupInBounds ==
    /\ TableSize = 32 * 32 * 32
    /\ LOOKUP_INSTANCE.table[TableSize - 1].built
    /\ measured.fn # "none"
        => /\ measured.key \in 0..(TableSize - 1)
           /\ measured.in_bounds

C15_Witness ==
    /\ measured.fn = "dist_rgb"
    /\ pix1 = Grey(253)
    /\ pix2 = Grey(255)
    /\ measured.key = TableSize - 1
    /\ measured.in_bounds

\* floor(h / 8) for a half-difference h of either sign
FloorEighth(h) == IF h >= 0 THEN h \div 8 ELSE -((7 - h) \div 8)

\* C16: lookup quantization matches build quantization.  In every channel,
\* with h the half-difference (c1 - c2) / 2 truncated toward zero, the 5-bit
\* field of the key dist_rgb used is h reinterpreted as 8 bits and shifted
\* right by 3, the entry new_small built at that key was built from the
\* channel difference q = 16 * floor(h / 8), q is within 15 of c1 - c2, and
\* q is never of the opposite sign with magnitude 16 or more.
C16_QuantizationMatches ==
    measured.fn # "none"
        => \A k \in 1..3 :
              LET diff  == pix1[k] - pix2[k]
                  h     == IF diff < 0 THEN -((-diff) \div 2) ELSE diff \div 2
                  field == (measured.key \div (32 ^ (3 - k))) % 32
                  e     == new_small_entry(measured.key)
                  q     == <<e.r_diff, e.g_diff, e.b_diff>>[k]
              IN  /\ field = ((h + 256) % 256) \div 8
                  /\ q = 16 * FloorEighth(h)
                  /\ Abs(q - diff) <= 15
                  /\ ~ (q > 0 /\ diff < 0 /\ q >= 16)
                  /\ ~ (q < 0 /\ diff > 0 /\ q <= -16)

C16_Witness ==
    /\ measured.fn = "dist_rgb"
    /\ pix1 = Grey(0)
    /\ pix2 = Grey(255)
    /\ measured.key = 16 * 1024 + 16 * 32 + 16
    /\ new_small_entry(measured.key).r_diff = -256
    /\ new_small_entry(measured.key).b_diff = -256

\* C17: the perceptual distance is symmetric: dist(p1, p2) = dist(p2, p1) for
\* every pair of pixels and dist_rgb(a, b) = dist_rgb(b, a) for every pair of
\* RGB triples.
C17_DistanceSymmetric ==
    /\ measured.fn = "dist" => measured.d = dist(pix2, pix1, 0).d
    /\ measured.fn = "dist_rgb" => measured.d = dist_rgb(to_rgb(pix2), to_rgb(pix1), 0).d

====
